---- MODULE Spec2Model ----
(***************************************************************************)
(* Model of src/streamlit_app.py: the catalog index (build_product_lookup), *)
(* the report builder (get_products_info_for_row), the grand-total row and  *)
(* the pallet summary of the page script.                                   *)
(*                                                                          *)
(* Python values are tagged records: None, NaN, Num(n), Str(s), Float(m, e). *)
(* Num(n) is the float a decimal literal denotes, n counted on the scale of  *)
(* its kind of quantity:                                                     *)
(*   units, stock, Falta, Extra, Subtotal > Units/Falta : hundredths        *)
(*   weights (unit, total, subtotal)                    : grams (1e-3 kg)   *)
(*   volumes                                            : 1e-5 m3           *)
(*   dimensions                                         : cm                *)
(* Float(m, e) is any other float: a sum of cells.  Products, quotients,    *)
(* sums, round() and the printed digits are computed on the binary64 values *)
(* (section "binary64 arithmetic").  The one operation taken on the decimal *)
(* scale is stock - units, which is exact when both are multiples of 0.25,  *)
(* as they are in the input sets below.  Numbers are >= 0.                   *)
(***************************************************************************)
EXTENDS Integers, Sequences, FiniteSets

VARIABLES products, docField, product_lookup, df_res, total_weight,
          total_volume, summary, exc, pc

vars == <<products, docField, product_lookup, df_res, total_weight,
          total_volume, summary, exc, pc>>

(* ------------------------- binary64 arithmetic -------------------------- *)
(* The numbers the script adds, divides, rounds and prints are IEEE binary64 *)
(* floats.  A float is a 53-bit significand m and an exponent e, of value    *)
(* m * 2^e; the significand is a natural number held as NLimbs limbs of      *)
(* LimbBits bits, least significant first.  Every operation below computes   *)
(* the exact result and rounds it once, to nearest, ties to even, as the     *)
(* hardware does.  Only values >= 0 occur.                                   *)
LimbBits == 20
LimbBase == 1048576
NLimbs == 6

\* the natural number whose limb i is limb[i]
BigOf(limb) == <<limb[1], limb[2], limb[3], limb[4], limb[5], limb[6]>>

BigZero == BigOf([i \in 1..NLimbs |-> 0])
BigOfInt(n) ==
  BigOf([i \in 1..NLimbs |-> IF i = 1 THEN n % LimbBase
                              ELSE IF i = 2 THEN n \div LimbBase ELSE 0])
BigToInt(a) == a[1] + LimbBase * a[2]

\* limbs i and up of the limb-wise sums raw, each brought below LimbBase
\* with its carry (or borrow, when negative) moved into the next limb
RECURSIVE CarryFrom(_, _, _)
CarryFrom(raw, i, carry) ==
  IF i > NLimbs THEN <<>>
  ELSE <<(raw[i] + carry) % LimbBase>>
         \o CarryFrom(raw, i + 1, (raw[i] + carry) \div LimbBase)

BigCarry(raw) == CarryFrom(raw, 1, 0)

BigAdd(a, b) == BigCarry(BigOf([i \in 1..NLimbs |-> a[i] + b[i]]))
\* a - b, for a >= b
BigSub(a, b) == BigCarry(BigOf([i \in 1..NLimbs |-> a[i] - b[i]]))
\* a * k, for 0 <= k <= 1024
BigMulSmall(a, k) == BigCarry(BigOf([i \in 1..NLimbs |-> a[i] * k]))

\* a >= b: at the highest limb where they differ, a's is the larger
BigGeq(a, b) ==
  LET diff == {i \in 1..NLimbs : a[i] # b[i]}
  IN  \A i \in diff : (\A j \in diff : j <= i) => a[i] > b[i]

\* long division of limbs i down to 1 of a by d, rem being the remainder
\* left by the limbs above
RECURSIVE DivFrom(_, _, _, _)
DivFrom(a, d, i, rem) ==
  IF i = 0 THEN [q |-> <<>>, r |-> rem]
  ELSE LET t == rem * LimbBase + a[i]
           low == DivFrom(a, d, i - 1, t % d)
       IN  [q |-> Append(low.q, t \div d), r |-> low.r]

\* quotient and remainder of a by d, for 0 < d < 2048
BigDivSmall(a, d) == DivFrom(a, d, NLimbs, 0)

\* a * 2^s
BigShl(a, s) ==
  LET limbs == s \div LimbBits
      bits == s % LimbBits
      up == 2 ^ bits
      down == 2 ^ (LimbBits - bits)
      Src(j) == IF j < 1 THEN 0 ELSE a[j]
  IN  BigOf([i \in 1..NLimbs |-> (Src(i - limbs) % down) * up
                         + Src(i - limbs - 1) \div down])

\* a \div 2^s, and whether any of the bits dropped was set
BigShr(a, s) ==
  LET limbs == s \div LimbBits
      bits == s % LimbBits
      down == 2 ^ bits
      up == 2 ^ (LimbBits - bits)
      Src(j) == IF j > NLimbs THEN 0 ELSE a[j]
  IN  [q |-> BigOf([i \in 1..NLimbs |-> Src(i + limbs) \div down
                                + (Src(i + limbs + 1) % down) * up]),
       sticky |-> Src(limbs + 1) % down # 0
                    \/ \E i \in 1..NLimbs : i <= limbs /\ a[i] # 0]

\* the number of bits of a limb, and of a
IntBitLen(n) == Cardinality({k \in 0..(LimbBits - 1) : 2 ^ k <= n})
BigBitLen(a) ==
  LET used == {i \in 1..NLimbs : a[i] # 0}
  IN  IF used = {} THEN 0
      ELSE LET top == CHOOSE i \in used : \A j \in used : j <= i
           IN  LimbBits * (top - 1) + IntBitLen(a[top])

\* h.q + h.r / 2 rounded to an integer, ties to even; the half is above a
\* tie when sticky
TiesToEven(h, sticky) ==
  IF h.r = 1 /\ (sticky \/ h.q[1] % 2 = 1) THEN BigAdd(h.q, BigOfInt(1))
  ELSE h.q

\* t.q / 2 rounded to an integer, t.sticky telling of bits dropped before
HalfRounded(t, sticky) == TiesToEven(BigDivSmall(t.q, 2), t.sticky \/ sticky)

\* the integer nearest to (a + x) / 2^s, ties to even, where 0 < x < 1 when
\* sticky and x = 0 otherwise
BigRoundShr(a, s, sticky) ==
  IF s <= 0 THEN a ELSE HalfRounded(BigShr(a, s - 1), sticky)

Float(m, e) == [t |-> "float", m |-> m, e |-> e]
FloatZero == Float(BigZero, 0)
IsFloat(v) == v.t = "float"

\* the float q * 2^e for a rounded significand q, which has 53 bits or is
\* 2^53
Normalized(q, e) ==
  IF BigBitLen(q) = 54 THEN Float(BigDivSmall(q, 2).q, e + 1) ELSE Float(q, e)

\* the float nearest to (a + x) * 2^e, a having len bits
RoundBits(a, e, sticky, len) ==
  IF len = 0 THEN FloatZero
  ELSE IF len <= 53 THEN Float(BigShl(a, 53 - len), e - (53 - len))
  ELSE Normalized(BigRoundShr(a, len - 53, sticky), e + len - 53)

\* the float nearest to (a + x) * 2^e
Round53(a, e, sticky) == RoundBits(a, e, sticky, BigBitLen(a))

\* the float nearest to the quotient d.q, inexact when d.r # 0, times 2^e
RoundQuotient(d, e) == Round53(d.q, e, d.r # 0)

\* a * k for a power of ten k up to 100000, as two small factors
BigMulInt(a, k) ==
  IF k <= 1000 THEN BigMulSmall(a, k)
  ELSE BigMulSmall(BigMulSmall(a, 1000), k \div 1000)

\* d1.q divided once more, by k: quotient, and a remainder that is 0 only if
\* both divisions left none
DivAgain(d1, d2) == [q |-> d2.q, r |-> IF d1.r # 0 THEN 1 ELSE d2.r]
DivTwice(d1, k) == DivAgain(d1, BigDivSmall(d1.q, k))

\* quotient of a by a power of ten k up to 1000000, and whether it is exact
\* (r = 0)
BigDivPow10(a, k) ==
  IF k <= 1000 THEN BigDivSmall(a, k)
  ELSE DivTwice(BigDivSmall(a, 1000), k \div 1000)

\* the float of the decimal n / scale (n >= 0, scale a power of ten up to
\* 1000000): what the literal, the parsed number or n / scale evaluates to
FloatOfDecimal(n, scale) ==
  RoundQuotient(BigDivPow10(BigShl(BigOfInt(n), 80), scale), -80)

\* hi + lo for hi.e >= lo.e: lo is lost when more than 60 bits below hi
AddAligned(hi, lo) ==
  IF hi.e - lo.e > 60 THEN hi
  ELSE Round53(BigAdd(BigShl(hi.m, hi.e - lo.e), lo.m), lo.e, FALSE)

\* x + y
FloatAdd(x, y) ==
  IF x.m = BigZero THEN y
  ELSE IF y.m = BigZero THEN x
  ELSE IF x.e >= y.e THEN AddAligned(x, y)
  ELSE AddAligned(y, x)

\* x * k for an integer k (a power of ten up to 100000)
FloatMulInt(x, k) == Round53(BigMulInt(x.m, k), x.e, FALSE)

\* digit j (from 0, the lowest) of y in base 1024: half a limb
Digit(y, j) ==
  LET limb == y[(j \div 2) + 1]
  IN  IF j % 2 = 0 THEN limb % 1024 ELSE limb \div 1024

\* high * 1024 + a * d
MulAdd(high, a, d) ==
  BigCarry(BigOf([i \in 1..NLimbs |-> high[i] * 1024 + a[i] * d]))

\* a times the number made of digits j and up of a 53-bit y
RECURSIVE MulFrom(_, _, _)
MulFrom(a, y, j) ==
  IF j > 5 THEN BigZero
  ELSE MulAdd(MulFrom(a, y, j + 1), a, Digit(y, j))

\* a * y
BigMul(a, y) == MulFrom(a, y, 0)

\* x * y
FloatMul(x, y) ==
  IF x.m = BigZero \/ y.m = BigZero THEN FloatZero
  ELSE Round53(BigMul(x.m, y.m), x.e + y.e, FALSE)

\* x / d for an integer 0 < d < 2048
FloatDivSmall(x, d) ==
  RoundQuotient(BigDivSmall(BigShl(x.m, 14), d), x.e - 14)

\* one step of binary long division by v: the next quotient bit is set iff
\* the running remainder reaches v
DivStep(s, v, ge) ==
  [r |-> BigMulSmall(IF ge THEN BigSub(s.r, v) ELSE s.r, 2),
   q |-> BigCarry(BigOf([i \in 1..NLimbs |->
                     2 * s.q[i] + (IF i = 1 /\ ge THEN 1 ELSE 0)]))]

\* k steps of binary long division by v; once the remainder is 0 the
\* quotient bits left are 0
RECURSIVE DivBits(_, _, _)
RECURSIVE DivRest(_, _, _)
DivRest(half, v, k) ==
  IF half.r = BigZero THEN [r |-> BigZero, q |-> BigShl(half.q, k)]
  ELSE DivBits(half, v, k)
DivBits(s, v, k) ==
  IF k = 1 THEN DivStep(s, v, BigGeq(s.r, v))
  ELSE DivRest(DivBits(s, v, k \div 2), v, k - k \div 2)

\* the float nearest to the quotient d.q, inexact when a remainder d.r is
\* left, times 2^e
RoundDivided(d, e) == Round53(d.q, e, d.r # BigZero)

\* x / y (y # 0): 56 quotient bits of the significands, rounded to 53
FloatDiv(x, y) ==
  IF x.m = BigZero \/ y.m = BigZero THEN FloatZero
  ELSE RoundDivided(DivBits([r |-> x.m, q |-> BigZero], y.m, 56),
                    x.e - y.e - 55)

\* the integer nearest to x * k, ties to even, computed exactly: the digits
\* round(x, ndigits) and f"{x:.nf}" keep, k = 10^ndigits
FloatRoundDecimal(x, k) ==
  BigToInt(BigRoundShr(BigMulInt(x.m, k), -x.e, FALSE))

\* np.rint(x * k): the digits numpy's round(x, ndigits) keeps, k = 10^ndigits
NumpyRound(x, k) == FloatRoundDecimal(IF k = 1 THEN x ELSE FloatMulInt(x, k), 1)

\* int(x)
FloatTrunc(x) == BigToInt(BigShr(x.m, -x.e).q)

\* math.ceil(x)
FloatCeil(x) == FloatTrunc(x) + (IF BigShr(x.m, -x.e).sticky THEN 1 ELSE 0)

(* ------------------------- Python values ------------------------------ *)
None == [t |-> "none"]
NaN == [t |-> "nan"]
Absent == [t |-> "absent"]
Num(n) == [t |-> "num", n |-> n]
Str(s) == [t |-> "str", s |-> s]
PyList(items) == [t |-> "list", items |-> items]
PyDict(size) == [t |-> "dict", size |-> size]

IsNum(v) == v.t = "num"
IsNumeric(v) == v.t \in {"num", "float"}

\* the float a cell holds, scale being the scale of its column
FloatOfCell(v, scale) == IF IsFloat(v) THEN v ELSE FloatOfDecimal(v.n, scale)

\* the nearest multiple of 1 / scale to the number a cell holds, in units of
\* 1 / scale
DecimalOf(v, scale) == IF IsFloat(v) THEN FloatRoundDecimal(v, scale) ELSE v.n

\* bool(v)
Truthy(v) ==
  CASE v.t = "num" -> v.n # 0
    [] v.t = "float" -> v.m # BigZero
    [] v.t = "str" -> v.s # ""
    [] v.t = "nan" -> TRUE
    [] v.t = "list" -> Len(v.items) > 0
    [] v.t = "dict" -> v.size > 0
    [] OTHER -> FALSE

\* a or b
PyOr(a, b) == IF Truthy(a) THEN a ELSE b

\* nearest integer to a / b (b > 0), ties to the even integer
RoundDiv(a, b) ==
  LET q == a \div b
      r == a % b
  IN  IF 2 * r < b THEN q
      ELSE IF 2 * r > b THEN q + 1
      ELSE IF q % 2 = 0 THEN q ELSE q + 1

\* x rounded to the nearest multiple of m
RoundTo(x, m) == m * RoundDiv(x, m)

\* smallest integer >= a / b (b > 0)
CeilDiv(a, b) == -((-a) \div b)

Max2(a, b) == IF a >= b THEN a ELSE b

\* float(raw) of an attribute value: the number, or "fail" for the
\* TypeError / ValueError the bare except swallows
DecimalStrings == {"40", "25", "30", "3"}
StrToInt(s) == CASE s = "40" -> 40 [] s = "25" -> 25 [] s = "30" -> 30 [] s = "3" -> 3
ParseFloat(raw) ==
  CASE raw.t = "num" -> Num(raw.n)
    [] raw.t = "str" /\ raw.s \in DecimalStrings -> Num(StrToInt(raw.s))
    [] OTHER -> [t |-> "fail"]

\* pd.to_numeric(cell, errors="coerce"), scale being the scale of the cell's
\* column: a numeric string becomes its number, any other non-number NaN
ToNumeric(cell, scale) ==
  CASE cell.t \in {"num", "float"} -> cell
    [] cell.t = "str" /\ cell.s \in DecimalStrings
         -> Num(StrToInt(cell.s) * scale)
    [] OTHER -> NaN

\* code-point order of the SKU strings of the input sets
SkuRank(s) == CASE s = "" -> 0 [] s = "A" -> 1 [] s = "B" -> 2 [] s = "C" -> 3

\* "Sin linea de productos" (the source spells it with an accented i)
DefaultSubcat == Str("Sin linea de productos")

(* ------------------------- build_product_lookup ------------------------ *)
\* pid = p.get("id") or p.get("productId")
ProductPid(p) == PyOr(p.id, p.productId)

ProductInfo(p) ==
  [Product |-> p.name, SKU |-> p.sku, StockReal |-> p.stock,
   Weight |-> p.weight, Attributes |-> p.attributes]

\* lookup[pid] = info
DictSetSkipNull(lookup, key, info) ==
  IF key = None THEN lookup
  ELSE [k \in DOMAIN lookup \cup {key} |-> IF k = key THEN info ELSE lookup[k]]
DictSet(lookup, key, info) ==
  [k \in DOMAIN lookup \cup {key} |-> IF k = key THEN info ELSE lookup[k]]

RECURSIVE LookupAfter(_, _)
LookupAfter(prods, n) ==
  IF n = 0 THEN [k \in {} |-> None]
  ELSE DictSet(LookupAfter(prods, n - 1), ProductPid(prods[n]),
               ProductInfo(prods[n]))

build_product_lookup(prods) == LookupAfter(prods, Len(prods))

(* ------------------------- get_products_info_for_row ------------------- *)
\* pid = item.get("productId") if item.get("productId") is not None
\*       else item.get("id")
ItemPid(item) == IF item.productId # None THEN item.productId ELSE item.id

\* units = item.get("units", 0)
ItemUnits(item) == IF item.units = Absent THEN Num(0) ELSE item.units

\* pid is not None and pid in product_lookup
CatalogHit(pid, lookup) == pid # None /\ pid \in DOMAIN lookup

\* one pass of the loop over attrs: acc is (subcat, ancho, alto, fondo)
AttrStep(acc, a) ==
  LET name == a.name
      raw == a.value
      acc1 == IF name = "Product Line" \/ name = "3. Product Line"
              THEN [acc EXCEPT !.subcat = raw] ELSE acc
      val == ParseFloat(raw)
  IN  IF val.t = "fail" THEN acc1
      ELSE IF name = "Ancho [cm]" THEN [acc1 EXCEPT !.ancho = val]
      ELSE IF name = "Alto [cm]" THEN [acc1 EXCEPT !.alto = val]
      ELSE IF name = "Fondo [cm]" THEN [acc1 EXCEPT !.fondo = val]
      ELSE acc1

RECURSIVE ScanAttrsFrom(_, _)
ScanAttrsFrom(attrs, n) ==
  IF n = 0
  THEN [subcat |-> DefaultSubcat, ancho |-> None, alto |-> None, fondo |-> None]
  ELSE AttrStep(ScanAttrsFrom(attrs, n - 1), attrs[n])

\* attrs = info.get("Attributes") or []
ScanAttrs(info) ==
  LET attrs == PyOr(info.Attributes, PyList(<<>>))
  IN  ScanAttrsFrom(attrs.items, Len(attrs.items))

\* volume = round((ancho * alto * fondo) / 1_000_000, 5) when all three are
\* set: the product of whole numbers is exact, the quotient is a float, and
\* round keeps the 5 decimals nearest to that float
VolumeOf(ancho, alto, fondo) ==
  IF None \in {ancho, alto, fondo} THEN None
  ELSE Num(FloatRoundDecimal(
             FloatOfDecimal(ancho.n * alto.n * fondo.n, 1000000), 100000))

\* the stock >= units comparison raises TypeError when units is not a number
ShortageRaises(sku, stock, units) ==
  Truthy(sku) /\ IsNum(stock) /\ ~IsNum(units)

\* if not sku or not isinstance(stock, (int, float)): ... elif stock >= units:
\* ... else: ...   (evaluated only where the comparison does not raise)
ShortageIgnoringSku(sku, stock, units) ==
  IF ~IsNum(stock)
  THEN [insuf |-> Str(""), falta |-> Num(0), extra |-> Num(0)]
  ELSE IF stock.n >= units.n
  THEN [insuf |-> Str(""), falta |-> Num(0), extra |-> Num(stock.n - units.n)]
  ELSE [insuf |-> Str("STOCK INSUFICIENTE"),
        falta |-> Num(units.n - stock.n), extra |-> Num(0)]
Shortage(sku, stock, units) ==
  IF ~Truthy(sku) \/ ~IsNum(stock)
  THEN [insuf |-> Str(""), falta |-> Num(0), extra |-> Num(0)]
  ELSE IF stock.n >= units.n
  THEN [insuf |-> Str(""), falta |-> Num(0), extra |-> Num(stock.n - units.n)]
  ELSE [insuf |-> Str("STOCK INSUFICIENTE"),
        falta |-> Num(IF stock.n - units.n < 0 THEN units.n - stock.n
                      ELSE stock.n - units.n),
        extra |-> Num(0)]

\* net_w * units, or round() of it, raises TypeError when both are truthy
\* and one is not a number (a string of units)
TotalWeightRaises(net_w, units) ==
  Truthy(net_w) /\ Truthy(units) /\ ~(IsNum(net_w) /\ IsNum(units))

\* round(net_w * units, 3) if net_w and units else None
TotalWeightOf(net_w, units) ==
  IF Truthy(net_w) /\ Truthy(units)
  THEN Num(FloatRoundDecimal(FloatMul(FloatOfDecimal(net_w.n, 1000),
                                      FloatOfDecimal(units.n, 100)), 1000))
  ELSE None

\* the fields the loop body derives for one item, before the shortage test
\* ... of an item found in the catalog, sc being what the attribute loop left
CatalogFields(info, sc) ==
  [product_name |-> info.Product, sku |-> info.SKU,
   stock |-> info.StockReal, net_w |-> info.Weight,
   subcat |-> sc.subcat,
   volume |-> VolumeOf(sc.ancho, sc.alto, sc.fondo)]
ResolveFields(item, lookup) ==
  LET pid == ItemPid(item)
  IN  IF CatalogHit(pid, lookup)
      THEN CatalogFields(lookup[pid], ScanAttrs(lookup[pid]))
      ELSE [product_name |-> PyOr(item.name, Str("")),
            sku |-> PyOr(item.sku, Str("")),
            stock |-> Str(""), net_w |-> PyOr(item.weight, Num(0)),
            subcat |-> DefaultSubcat, volume |-> None]

\* the line at which the loop body raises TypeError for an item of fields f
\* (the shortage test comes first), 0 when it does not
FieldsRaise(f, units) ==
  IF ShortageRaises(f.sku, f.stock, units) THEN 133
  ELSE IF TotalWeightRaises(f.net_w, units) THEN 148
  ELSE 0
ItemRaises(item, lookup) ==
  FieldsRaise(ResolveFields(item, lookup), ItemUnits(item))

\* the dict "data" of one item and its group key
\* from its fields f, its units and the outcome sh of the shortage test
LineData(f, units, sh) ==
  [subcat |-> f.subcat,
   data |-> [Product |-> f.product_name, SKU |-> f.sku, Units |-> units,
             GrossWeight |-> f.net_w,
             TotalWeight |-> TotalWeightOf(f.net_w, units),
             Volume |-> f.volume, StockReal |-> f.stock,
             Insuficiente |-> sh.insuf, Falta |-> sh.falta,
             Extra |-> sh.extra]]
FieldsLine(f, units) == LineData(f, units, Shortage(f.sku, f.stock, units))
ResolveLine(item, lookup) ==
  FieldsLine(ResolveFields(item, lookup), ItemUnits(item))

\* grouped.setdefault(subcat, []).append(data): groups keep insertion order
GroupAppendSkipNoSku(grouped, r) ==
  IF ~Truthy(r.data.SKU) THEN grouped
  ELSE IF \E i \in 1..Len(grouped) : grouped[i].subcat = r.subcat
  THEN [i \in 1..Len(grouped) |->
          IF grouped[i].subcat = r.subcat
          THEN [grouped[i] EXCEPT !.prods = Append(@, r.data)]
          ELSE grouped[i]]
  ELSE Append(grouped, [subcat |-> r.subcat, prods |-> <<r.data>>])
GroupAppend(grouped, r) ==
  IF \E i \in 1..Len(grouped) : grouped[i].subcat = r.subcat
  THEN [i \in 1..Len(grouped) |->
          IF grouped[i].subcat = r.subcat
          THEN [grouped[i] EXCEPT !.prods = Append(@, r.data)]
          ELSE grouped[i]]
  ELSE Append(grouped, [subcat |-> r.subcat, prods |-> <<r.data>>])

RECURSIVE GroupedAfter(_, _, _)
GroupedAfter(items, lookup, n) ==
  IF n = 0 THEN <<>>
  ELSE GroupAppend(GroupedAfter(items, lookup, n - 1),
                   ResolveLine(items[n], lookup))

\* key=lambda x: x.get("SKU") or ""
SortKey(data) == SkuRank(PyOr(data.SKU, Str("")).s)

\* sorted(...) is stable: x goes after every element whose key is <= its key
InsertSorted(sorted, x) ==
  LET k == Cardinality({i \in 1..Len(sorted) : SortKey(sorted[i]) <= SortKey(x)})
  IN  SubSeq(sorted, 1, k) \o <<x>> \o SubSeq(sorted, k + 1, Len(sorted))

RECURSIVE SortedAfter(_, _)
SortedAfter(prods, n) ==
  IF n = 0 THEN <<>> ELSE InsertSorted(SortedAfter(prods, n - 1), prods[n])

SortBySkuUnsorted(prods) == prods
SortBySku(prods) == SortedAfter(prods, Len(prods))

(* ------------------------- the report table ---------------------------- *)
Columns ==
  <<"SKU", "Product", "Units", "Subtotal > Units", "Gross Weight (kg)",
    "Total Weight (kg)", "Subtotal > Total Weight (kg)", "Volume (m3)",
    "Subtotal > Volume (m3)", "Stock Real", "Insuficiente?", "Falta",
    "Subtotal > Falta", "Extra">>

\* f"--- {subcat} ---" and f"    Subtotal {subcat}": the label keeps the
\* group key it was formatted from
HeaderLabel(subcat) == [t |-> "header", subcat |-> subcat]
SubtotalLabel(subcat) == [t |-> "subtotal", subcat |-> subcat]
TotalLabel == [t |-> "total"]

\* {k: "" for k in [...]} with Product set to the header label
HeaderRow(subcat) ==
  [SKU |-> Str(""), Product |-> HeaderLabel(subcat), Units |-> Str(""),
   SubUnits |-> Str(""), GrossWeight |-> Str(""), TotalWeight |-> Str(""),
   SubTotalWeight |-> Str(""), Volume |-> Str(""), SubVolume |-> Str(""),
   StockReal |-> Str(""), Insuficiente |-> Str(""), Falta |-> Str(""),
   SubFalta |-> Str(""), Extra |-> Str("")]

\* pd.DataFrame(output) gives a member dict NaN in the four columns it lacks
MemberRow(data) ==
  [SKU |-> data.SKU, Product |-> data.Product, Units |-> data.Units,
   SubUnits |-> NaN, GrossWeight |-> data.GrossWeight,
   TotalWeight |-> data.TotalWeight, SubTotalWeight |-> NaN,
   Volume |-> data.Volume, SubVolume |-> NaN, StockReal |-> data.StockReal,
   Insuficiente |-> data.Insuficiente, Falta |-> data.Falta,
   SubFalta |-> NaN, Extra |-> data.Extra]

\* acc + a[lo] + ... + a[hi], added from left to right
RECURSIVE SumOnto(_, _, _, _)
SumOnto(acc, a, lo, hi) ==
  IF hi < lo THEN acc ELSE FloatAdd(SumOnto(acc, a, lo, hi - 1), a[hi])

\* accumulator j of numpy's unrolled loop: a[j] + a[j + 8] + ... over the
\* first `blocks` blocks of 8
RECURSIVE Lane(_, _, _)
Lane(a, j, blocks) ==
  IF blocks = 1 THEN a[j]
  ELSE FloatAdd(Lane(a, j, blocks - 1), a[8 * (blocks - 1) + j])

\* res = ((r[0] + r[1]) + (r[2] + r[3])) + ((r[4] + r[5]) + (r[6] + r[7]))
SumOfLanes(r) ==
  FloatAdd(FloatAdd(FloatAdd(r[1], r[2]), FloatAdd(r[3], r[4])),
           FloatAdd(FloatAdd(r[5], r[6]), FloatAdd(r[7], r[8])))

\* numpy's sum of a float array (pairwise summation): fewer than 8 elements
\* are added in order; up to 128 go into 8 accumulators that are added in
\* pairs, the elements past the last full block of 8 in order after that; a
\* longer array is halved
RECURSIVE PairwiseSum(_)
PairwiseSum(a) ==
  LET n == Len(a)
      blocks == n \div 8
      n2 == (n \div 2) - ((n \div 2) % 8)
  IN  IF n < 8 THEN SumOnto(FloatZero, a, 1, n)
      ELSE IF n <= 128
      THEN SumOnto(SumOfLanes([j \in 1..8 |-> Lane(a, j, blocks)]),
                   a, 8 * blocks + 1, n)
      ELSE FloatAdd(PairwiseSum(SubSeq(a, 1, n2)),
                    PairwiseSum(SubSeq(a, n2 + 1, n)))

\* the column as the float array that is summed: NaN counts as 0
RECURSIVE FilledFloats(_, _, _)
FilledFloats(nums, scale, n) ==
  IF n = 0 THEN <<>>
  ELSE Append(FilledFloats(nums, scale, n - 1),
              IF IsNumeric(nums[n]) THEN FloatOfCell(nums[n], scale)
              ELSE FloatZero)

\* pd.to_numeric(col, errors="coerce").sum(min_count=1)
ColSumMin1(cells, scale) ==
  LET nums == [i \in 1..Len(cells) |-> ToNumeric(cells[i], scale)]
  IN  IF \A i \in 1..Len(cells) : ~IsNumeric(nums[i]) THEN NaN
      ELSE PairwiseSum(FilledFloats(nums, scale, Len(cells)))

\* round(tmp[c].sum(min_count=1) or 0, ndigits) with k = 10^ndigits: the sum
\* is a numpy float, which round() multiplies by k, rounds to an integer and
\* divides by k again; NaN stays NaN
\* round(total or 0, ndigits)
RoundedOrZero(total, scale, k) ==
  IF total = NaN THEN NaN
  ELSE IF ~Truthy(total) THEN Num(0)
  ELSE Num(NumpyRound(total, k) * (scale \div k))
SubtotalCell(cells, scale, k) ==
  RoundedOrZero(ColSumMin1(cells, scale), scale, k)

Col(rows, f) == [i \in 1..Len(rows) |-> rows[i][f]]

SubtotalRow(subcat, prods) ==
  [SKU |-> Str(""), Product |-> SubtotalLabel(subcat), Units |-> Str(""),
   SubUnits |-> SubtotalCell(Col(prods, "Units"), 100, 10),
   GrossWeight |-> Str(""), TotalWeight |-> Str(""),
   SubTotalWeight |-> SubtotalCell(Col(prods, "TotalWeight"), 1000, 100),
   Volume |-> Str(""),
   SubVolume |-> SubtotalCell(Col(prods, "Volume"), 100000, 100000),
   StockReal |-> Str(""), Insuficiente |-> Str(""), Falta |-> Str(""),
   SubFalta |-> SubtotalCell(Col(prods, "Falta"), 100, 1),
   Extra |-> Str("")]

\* one group's part of "output": header, sorted members, subtotal
GroupBlock(g) ==
  LET prods == SortBySku(g.prods)
  IN  <<HeaderRow(g.subcat)>>
      \o [i \in 1..Len(prods) |-> MemberRow(prods[i])]
      \o <<SubtotalRow(g.subcat, prods)>>

RECURSIVE OutputAfter(_, _)
OutputAfter(grouped, n) ==
  IF n = 0 THEN <<>>
  ELSE OutputAfter(grouped, n - 1) \o GroupBlock(grouped[n])

\* df["Product"].str.contains("Subtotal", na=False)
SubtotalNames == {"Subtotal kit"}
ContainsSubtotal(cell) ==
  CASE cell.t = "subtotal" -> TRUE
    [] cell.t = "header" ->
         cell.subcat.t = "str" /\ cell.subcat.s \in SubtotalNames
    [] cell.t = "str" -> cell.s \in SubtotalNames
    [] OTHER -> FALSE

\* .fillna(0)
FillNa0(cell) == IF cell \in {NaN, None} THEN Num(0) ELSE cell

\* df.loc[mask, col] = df.loc[mask, col].fillna(0) for the four subtotal columns
FillSubtotalsNoFill(row) == row
FillSubtotals(row) ==
  IF ContainsSubtotal(row.Product)
  THEN [row EXCEPT !.SubUnits = FillNa0(@), !.SubTotalWeight = FillNa0(@),
                   !.SubVolume = FillNa0(@), !.SubFalta = FillNa0(@)]
  ELSE row

EmptyFrame == [columns |-> Columns, rows |-> <<>>]
NoFrame == [columns |-> <<>>, rows |-> <<>>]
NoExc == [type |-> "none", line |-> 0]
Raise(type, line) == [type |-> type, line |-> line]

\* items = df_docs.at[row_idx, "products"] or []
ItemsOfNoDefault(field) == field
ItemsOf(field) == PyOr(field, PyList(<<>>))

\* the whole function: the exception it raises (NoExc when it returns) ...
get_products_info_exc(field, lookup) ==
  LET items == ItemsOf(field)
      bad == {i \in 1..Len(items.items) : ItemRaises(items.items[i], lookup) # 0}
      first == CHOOSE i \in bad : \A j \in bad : i <= j
  IN  IF items.t # "list" THEN Raise("TypeError", 83)
      ELSE IF bad # {}
      THEN Raise("TypeError", ItemRaises(items.items[first], lookup))
      ELSE NoExc

\* "construct output" onwards: the frame built from the groups
\* the empty frame if not output, else pd.DataFrame(output) with its
\* subtotals filled
FrameOf(output) ==
  IF Len(output) = 0 THEN EmptyFrame
  ELSE [columns |-> Columns,
        rows |-> [i \in 1..Len(output) |-> FillSubtotals(output[i])]]
ReportOf(grouped) == FrameOf(OutputAfter(grouped, Len(grouped)))

\* ... and the frame it returns
get_products_info_for_row(field, lookup) ==
  LET items == ItemsOf(field).items
  IN  ReportOf(GroupedAfter(items, lookup, Len(items)))

(* ------------------------- the page script ------------------------------ *)
\* for c in num_cols: df_res[c] = pd.to_numeric(df_res[c], errors="coerce")
NumericRow(row) ==
  [row EXCEPT !.Units = ToNumeric(@, 100), !.SubUnits = ToNumeric(@, 100),
              !.GrossWeight = ToNumeric(@, 1000),
              !.TotalWeight = ToNumeric(@, 1000),
              !.SubTotalWeight = ToNumeric(@, 1000),
              !.Volume = ToNumeric(@, 100000),
              !.SubVolume = ToNumeric(@, 100000),
              !.StockReal = ToNumeric(@, 100),
              !.Falta = ToNumeric(@, 100), !.SubFalta = ToNumeric(@, 100)]

\* the "totals" dict, which has no "Extra" key, as the row pd.concat appends
\* and the second to_numeric pass leaves
TotalsRow(rows) ==
  NumericRow(
    [SKU |-> Str(""), Product |-> TotalLabel, Units |-> Str(""),
     SubUnits |-> ColSumMin1(Col(rows, "SubUnits"), 100),
     GrossWeight |-> Str(""), TotalWeight |-> Str(""),
     SubTotalWeight |-> ColSumMin1(Col(rows, "SubTotalWeight"), 1000),
     Volume |-> Str(""),
     SubVolume |-> ColSumMin1(Col(rows, "SubVolume"), 100000),
     StockReal |-> Str(""), Insuficiente |-> Str(""), Falta |-> Str(""),
     SubFalta |-> ColSumMin1(Col(rows, "SubFalta"), 100),
     Extra |-> NaN])

WithTotalsMemberSums(frame) ==
  LET rows == [i \in 1..Len(frame.rows) |-> NumericRow(frame.rows[i])]
      t == TotalsRow(rows)
  IN  [frame EXCEPT !.rows = Append(rows,
         [t EXCEPT !.SubUnits = ColSumMin1(Col(rows, "Units"), 100),
                   !.SubFalta = ColSumMin1(Col(rows, "Falta"), 100)])]
WithTotals(frame) ==
  LET rows == [i \in 1..Len(frame.rows) |-> NumericRow(frame.rows[i])]
  IN  [frame EXCEPT !.rows = Append(rows, TotalsRow(rows))]

PalletWeightKg == 1300
PalletVolumeLitres == 1728

\* pw = round(total_weight / 1300, 3) if total_weight else 0, NaN turned to 0:
\* in thousandths of a pallet.  The total is a numpy float, so round() is
\* numpy's: the quotient times 1000, rounded to an integer
PalletsByWeight(tw) ==
  IF Truthy(tw) /\ IsFloat(tw)
  THEN NumpyRound(FloatDivSmall(tw, PalletWeightKg), 1000)
  ELSE 0

\* pv = round(total_volume / 1.728, 3) if total_volume else 0, NaN turned to 0
PalletsByVolume(tv) ==
  IF Truthy(tv) /\ IsFloat(tv)
  THEN NumpyRound(FloatDiv(tv, FloatOfDecimal(PalletVolumeLitres, 1000)), 1000)
  ELSE 0

\* pallets = max(1, int(np.ceil(max(pw, pv))))
PalletsNeededUnrounded(tw, tv) ==
  Max2(1, Max2(IF Truthy(tw) /\ IsFloat(tw)
               THEN FloatCeil(FloatDivSmall(tw, PalletWeightKg)) ELSE 0,
               IF Truthy(tv) /\ IsFloat(tv)
               THEN FloatCeil(FloatDiv(tv, FloatOfDecimal(PalletVolumeLitres, 1000)))
               ELSE 0))
PalletsNeeded(tw, tv) ==
  Max2(1, CeilDiv(Max2(PalletsByWeight(tw), PalletsByVolume(tv)), 1000))

\* int(total_units) raises ValueError on NaN
SummaryRaises(tu) == tu = NaN

\* f"{x:.2f} kg", f"{x:.3f} m3": the digits printed for the float, NaN for
\* "nan"; places = 10^(number of decimals)
FormatFixed(x, scale, places) ==
  IF x = NaN THEN NaN
  ELSE Num(FloatRoundDecimal(FloatOfCell(x, scale), places) * (scale \div places))

\* the row of the summary table; int(total_units) drops the fraction
SummaryOf(tu, tw, tv) ==
  [TotalUnits |-> Num(FloatTrunc(FloatOfCell(tu, 100)) * 100),
   TotalWeight |-> FormatFixed(tw, 1000, 100),
   TotalVolume |-> FormatFixed(tv, 100000, 1000),
   PalletsByWeight |-> PalletsByWeight(tw),
   PalletsByVolume |-> PalletsByVolume(tv),
   PalletsNeeded |-> PalletsNeeded(tw, tv)]

NoSummary == [TotalUnits |-> None, TotalWeight |-> None, TotalVolume |-> None,
              PalletsByWeight |-> 0, PalletsByVolume |-> 0, PalletsNeeded |-> 0]

\* df_res[c].sum(min_count=1) or 0
ColumnTotal(frame, f, scale) ==
  PyOr(ColSumMin1(Col(frame.rows, f), scale), Num(0))

(* ------------------------- inputs --------------------------------------- *)
MaxItems == 3
MaxProducts == 2
MaxPallets == 3

Attr(name, value) == [name |-> name, value |-> value]

Chair ==
  [id |-> Str("p1"), productId |-> None, name |-> Str("Chair"),
   sku |-> Str("B"), stock |-> Num(200), weight |-> Num(500),
   attributes |-> PyList(<<Attr("Ancho [cm]", Str("40")),
                           Attr("Alto [cm]", Num(30)),
                           Attr("Fondo [cm]", Str("25")),
                           Attr("Product Line", Str("L2"))>>)]
\* a later record of the same id, whose last product-line attribute is null
ChairRestocked ==
  [Chair EXCEPT !.sku = Str("C"), !.stock = Num(900),
                !.attributes = PyList(<<Attr("Product Line", Str("L2")),
                                        Attr("3. Product Line", None)>>)]
Desk ==
  [id |-> None, productId |-> Str("p2"), name |-> Str("Desk"),
   sku |-> Str("A"), stock |-> Num(0), weight |-> Num(1500),
   attributes |-> PyList(<<Attr("3. Product Line", Str("L1")),
                           Attr("Ancho [cm]", Str("wide")),
                           Attr("Alto [cm]", Num(3)),
                           Attr("Fondo [cm]", None)>>)]
Loose ==
  [id |-> Str("p3"), productId |-> Str("p1"), name |-> None, sku |-> None,
   stock |-> Num(500), weight |-> None, attributes |-> None]
Kit ==
  [id |-> Str("p4"), productId |-> None, name |-> Str("Subtotal kit"),
   sku |-> Str("A"), stock |-> None, weight |-> Num(1000),
   attributes |-> PyList(<<Attr("Product Line", Str("L2")),
                           Attr("Ancho [cm]", Num(5)),
                           Attr("Alto [cm]", Str("3")),
                           Attr("Fondo [cm]", Num(3))>>)]
Ghost ==
  [id |-> None, productId |-> None, name |-> Str("Ghost"), sku |-> Str("C"),
   stock |-> Num(900), weight |-> Num(500), attributes |-> PyList(<<>>)]

Catalogs ==
  {<<>>, <<Chair, Desk, Loose, Kit, Ghost>>, <<Ghost, Chair, ChairRestocked>>}

Line(productId, id, units, name, sku, weight) ==
  [productId |-> productId, id |-> id, units |-> units, name |-> name,
   sku |-> sku, weight |-> weight]

Lines ==
  {Line(Str("p1"), None, Num(100), None, None, None),
   Line(Str("p1"), Str("p2"), Num(225), None, None, None),
   Line(None, Str("p2"), Num(300), Str("Desk"), Str("A"), None),
   Line(Str("p4"), None, Absent, None, None, None),
   Line(Str("p3"), None, Num(600), None, None, None),
   Line(Str("zz"), None, Num(500), Str("Widget"), Str(""), None),
   Line(None, None, Num(225), None, Str("C"), Num(500)),
   Line(Str("p1"), None, None, None, None, None),
   Line(Str("zz"), None, Str("abc"), Str("Gift"), Str("B"), None),
   Line(Str("p4"), None, Str("40"), None, None, None)}

SeqsUpTo(S, n) == UNION {[1..k -> S] : k \in 0..n}

NonLists ==
  {None, NaN, Str(""), Str("abc"), Num(0), Num(5), PyDict(0), PyDict(1)}

DocFields == {PyList(items) : items \in SeqsUpTo(Lines, MaxItems)} \cup NonLists

(* ------------------------- the run -------------------------------------- *)
Init ==
  /\ products \in Catalogs
  /\ docField \in DocFields
  /\ product_lookup = [k \in {} |-> None]
  /\ df_res = NoFrame
  /\ total_weight = None
  /\ total_volume = None
  /\ summary = NoSummary
  /\ exc = NoExc
  /\ pc = "start"

\* lookup = build_product_lookup(all_prods)
BuildLookup ==
  /\ pc = "start"
  /\ product_lookup' = build_product_lookup(products)
  /\ pc' = "lookup"
  /\ UNCHANGED <<products, docField, df_res, total_weight, total_volume,
                 summary, exc>>

\* df_res = get_products_info_for_row(idx, df_docs, lookup); the script's
\* except clause reports what it raises
GetProductsInfo ==
  /\ pc = "lookup"
  /\ LET e == get_products_info_exc(docField, product_lookup)
     IN  IF e # NoExc
         THEN /\ exc' = e
              /\ pc' = "error"
              /\ UNCHANGED df_res
         ELSE /\ df_res' = get_products_info_for_row(docField, product_lookup)
              /\ pc' = "report"
              /\ UNCHANGED exc
  /\ UNCHANGED <<products, docField, product_lookup, total_weight,
                 total_volume, summary>>

\* if df_res.empty: st.warning(...)
EmptyWarning ==
  /\ pc = "report"
  /\ Len(df_res.rows) = 0
  /\ pc' = "done"
  /\ UNCHANGED <<products, docField, product_lookup, df_res, total_weight,
                 total_volume, summary, exc>>

\* numeric conversion, the TOTAL row, the second numeric conversion
Totals ==
  /\ pc = "report"
  /\ Len(df_res.rows) > 0
  /\ df_res' = WithTotals(df_res)
  /\ pc' = "totals"
  /\ UNCHANGED <<products, docField, product_lookup, total_weight,
                 total_volume, summary, exc>>

\* the pallet summary
PalletSummary ==
  /\ pc = "totals"
  /\ LET tu == ColumnTotal(df_res, "Units", 100)
         tw == ColumnTotal(df_res, "TotalWeight", 1000)
         tv == ColumnTotal(df_res, "Volume", 100000)
     IN  /\ total_weight' = tw
         /\ total_volume' = tv
         /\ IF SummaryRaises(tu)
            THEN /\ exc' = Raise("ValueError", 328)
                 /\ pc' = "error"
                 /\ UNCHANGED summary
            ELSE /\ summary' = SummaryOf(tu, tw, tv)
                 /\ pc' = "done"
                 /\ UNCHANGED exc
  /\ UNCHANGED <<products, docField, product_lookup, df_res>>

Next == BuildLookup \/ GetProductsInfo \/ EmptyWarning \/ Totals \/ PalletSummary

Spec == Init /\ [][Next]_vars

(* ------------------------- the catalog index alone ----------------------- *)
IdValues == {None, Str(""), Str("p1")}
ProductIdValues == {None, Str(""), Str("p2")}

ProductRecords ==
  {[id |-> i, productId |-> j, name |-> Str("Item"), sku |-> k,
    stock |-> Num(100), weight |-> Num(500), attributes |-> None] :
     i \in IdValues, j \in ProductIdValues, k \in {Str("A"), Str("B")}}

ProbeLines ==
  {Line(i, None, Num(100), Str("Inline"), Str("C"), None) :
     i \in {None, Str(""), Str("p1"), Str("p2")}}

InitLookup ==
  /\ products \in SeqsUpTo(ProductRecords, MaxProducts)
  /\ docField \in {PyList(<<l>>) : l \in ProbeLines}
  /\ product_lookup = [k \in {} |-> None]
  /\ df_res = NoFrame
  /\ total_weight = None
  /\ total_volume = None
  /\ summary = NoSummary
  /\ exc = NoExc
  /\ pc = "start"

NextLookup == BuildLookup \/ GetProductsInfo

SpecLookup == InitLookup /\ [][NextLookup]_vars

(* ------------------------- the pallet summary alone ---------------------- *)
\* orders whose totals lie at, just under and just over a whole number of
\* pallets and at the halves of the digits that are rounded: a pallet-weight
\* ingot ordered p times, q pallet-size blocks of foam, and at most one
\* ballast and one box
Ingot ==
  [id |-> Str("ingot"), productId |-> None, name |-> Str("Ingot"),
   sku |-> Str("A"), stock |-> Num(1000), weight |-> Num(PalletWeightKg * 1000),
   attributes |-> PyList(<<>>)]
Foam ==
  [id |-> Str("foam"), productId |-> None, name |-> Str("Foam"),
   sku |-> Str("B"), stock |-> Num(1000), weight |-> None,
   attributes |-> PyList(<<Attr("Ancho [cm]", Num(120)),
                           Attr("Alto [cm]", Num(120)),
                           Attr("Fondo [cm]", Num(120))>>)]

\* unit weights in grams
BallastIds == {"w0", "w125", "w750", "w3250", "w659750"}
BallastGrams(id) ==
  CASE id = "w0" -> 0 [] id = "w125" -> 125 [] id = "w750" -> 750
    [] id = "w3250" -> 3250 [] id = "w659750" -> 659750
Ballast(id) ==
  [id |-> Str(id), productId |-> None, name |-> Str("Ballast"),
   sku |-> Str("C"), stock |-> Num(1000), weight |-> Num(BallastGrams(id)),
   attributes |-> PyList(<<>>)]

\* width, height and depth in cm
BoxIds == {"v0", "v50", "v86", "v87", "v432", "v3024", "v100000"}
BoxDims(id) ==
  CASE id = "v0" -> <<0, 10, 10>> [] id = "v50" -> <<5, 10, 10>>
    [] id = "v86" -> <<43, 20, 1>> [] id = "v87" -> <<87, 10, 1>>
    [] id = "v432" -> <<12, 18, 20>> [] id = "v3024" -> <<36, 28, 30>>
    [] id = "v100000" -> <<100, 100, 100>>
Box(id) ==
  [id |-> Str(id), productId |-> None, name |-> Str("Box"),
   sku |-> Str("C"), stock |-> Num(1000), weight |-> None,
   attributes |-> PyList(<<Attr("Ancho [cm]", Num(BoxDims(id)[1])),
                           Attr("Alto [cm]", Num(BoxDims(id)[2])),
                           Attr("Fondo [cm]", Num(BoxDims(id)[3]))>>)]

\* an order line that names a product of the catalog and nothing else
LineOf(id, units) == Line(Str(id), None, Num(units), None, None, None)

PalletOrders ==
  {(IF p > 0 THEN <<LineOf("ingot", 100 * p)>> ELSE <<>>)
     \o [i \in 1..q |-> LineOf("foam", 100)] \o ballast \o box :
     p \in 0..MaxPallets, q \in 0..MaxPallets,
     ballast \in {<<>>} \cup {<<LineOf(id, 100)>> : id \in BallastIds},
     box \in {<<>>} \cup {<<LineOf(id, 100)>> : id \in BoxIds}}

\* the catalog holds the products the order names
PalletCatalog(items) ==
  [i \in 1..Len(items) |->
     LET id == items[i].productId.s
     IN  IF id = "ingot" THEN Ingot
         ELSE IF id = "foam" THEN Foam
         ELSE IF id \in BallastIds THEN Ballast(id)
         ELSE Box(id)]

InitPallet ==
  /\ \E items \in PalletOrders :
       /\ products = PalletCatalog(items)
       /\ docField = PyList(items)
  /\ product_lookup = [k \in {} |-> None]
  /\ df_res = NoFrame
  /\ total_weight = None
  /\ total_volume = None
  /\ summary = NoSummary
  /\ exc = NoExc
  /\ pc = "start"

SpecPallet == InitPallet /\ [][Next]_vars

(* ------------------------- reading a report ----------------------------- *)
Rows == df_res.rows
IsHeader(r) == r.Product.t = "header"
IsSubtotal(r) == r.Product.t = "subtotal"
IsTotal(r) == r.Product.t = "total"
IsMember(r) == ~IsHeader(r) /\ ~IsSubtotal(r) /\ ~IsTotal(r)

Insufficient == Str("STOCK INSUFICIENTE")

\* the order lines of the document, when its field is a list
ItemList == IF docField.t = "list" THEN docField.items ELSE <<>>

\* the header row that opens the block row j lies in
BlockStart(j) ==
  CHOOSE i \in 1..j : IsHeader(Rows[i]) /\ \A k \in (i + 1)..j : ~IsHeader(Rows[k])

\* the member rows of the block that subtotal row j closes
MembersOf(j) == {k \in BlockStart(j)..j : IsMember(Rows[k])}

RECURSIVE SumOver(_, _)
\* the sum of the numeric cells of column f over the rows of index set S
SumOver(S, f) ==
  IF S = {} THEN 0
  ELSE LET k == CHOOSE x \in S : TRUE
       IN  (IF IsNum(Rows[k][f]) THEN Rows[k][f].n ELSE 0) + SumOver(S \ {k}, f)

Returned == pc = "report"

(* C1: in the report get_products_info_for_row returns, a line is flagged    *)
(* insufficient iff its SKU is non-empty, its stock is a number and          *)
(* stock < units; exactly then Falta = units - stock and Extra = 0; in every *)
(* other case Falta = 0, and Extra = stock - units only when the SKU is      *)
(* non-empty, stock is a number and stock >= units, else 0.  A catalog-miss  *)
(* line (stock "") is never flagged.                                         *)
C1_ShortageFlag ==
  Returned =>
    \A k \in 1..Len(Rows) :
      IsMember(Rows[k]) =>
        LET r == Rows[k]
            comparable == Truthy(r.SKU) /\ IsNum(r.StockReal)
            short == comparable /\ r.StockReal.n < r.Units.n
        IN  /\ (r.Insuficiente = Insufficient) <=> short
            /\ short => r.Falta = Num(r.Units.n - r.StockReal.n) /\ r.Extra = Num(0)
            /\ ~short => r.Falta = Num(0)
            /\ (comparable /\ ~short) => r.Extra = Num(r.StockReal.n - r.Units.n)
            /\ ~comparable => r.Extra = Num(0)
            /\ r.StockReal = Str("") => r.Insuficiente = Str("")

\* a report holding a flagged line, a line with surplus, a line with a numeric
\* stock and no SKU, and a catalog-miss line
C1_Witness ==
  /\ Returned
  /\ \E k \in 1..Len(Rows) :
       IsMember(Rows[k]) /\ Rows[k].Insuficiente = Insufficient /\ Rows[k].Falta.n > 0
  /\ \E k \in 1..Len(Rows) :
       /\ IsMember(Rows[k]) /\ ~Truthy(Rows[k].SKU) /\ IsNum(Rows[k].StockReal)
       /\ Rows[k].StockReal.n < Rows[k].Units.n
  /\ \E k \in 1..Len(Rows) : IsMember(Rows[k]) /\ Rows[k].StockReal = Str("")

\* the hundredths a Units value adds to its subtotal: a number its value, a
\* string that reads as a number that number, anything else nothing
UnitsRead(cell) ==
  IF IsNum(cell) THEN cell.n
  ELSE IF cell \in {Str("40"), Str("25"), Str("30"), Str("3")}
  THEN 100 * StrToInt(cell.s)
  ELSE 0

RECURSIVE UnitsOver(_)
\* the sum of the Units of the rows of index set S, each as UnitsRead reads it
UnitsOver(S) ==
  IF S = {} THEN 0
  ELSE LET k == CHOOSE x \in S : TRUE
       IN  UnitsRead(Rows[k].Units) + UnitsOver(S \ {k})

(* C2 as amended: every subtotal row holds, in each of its four subtotal     *)
(* columns, a number (never NaN or blank): the sum of the group's member     *)
(* values, a number or a string that reads as a number (units "40") adding   *)
(* its value and a null or any other value adding 0, rounded as the code     *)
(* rounds it: Units to 1 decimal, Total Weight to 2, Volume to 5, Falta to 0 *)
C2_SubtotalsRounded ==
  Returned =>
    \A j \in 1..Len(Rows) :
      IsSubtotal(Rows[j]) =>
        /\ Rows[j].SubUnits = Num(RoundTo(UnitsOver(MembersOf(j)), 10))
        /\ Rows[j].SubTotalWeight = Num(RoundTo(SumOver(MembersOf(j), "TotalWeight"), 10))
        /\ Rows[j].SubVolume = Num(SumOver(MembersOf(j), "Volume"))
        /\ Rows[j].SubFalta = Num(RoundTo(SumOver(MembersOf(j), "Falta"), 100))

\* a group whose member weights are all null and whose units are the strings
\* "abc", which adds nothing, and "40", which adds 40, next to a group whose
\* units sum is not a multiple of 0.1
C2_Witness ==
  /\ Returned
  /\ \E j \in 1..Len(Rows) :
       /\ IsSubtotal(Rows[j])
       /\ \A k \in MembersOf(j) : ~IsNum(Rows[k].TotalWeight) /\ ~IsNum(Rows[k].Units)
       /\ \E k \in MembersOf(j) : Rows[k].Units = Str("abc")
       /\ \E k \in MembersOf(j) : Rows[k].Units = Str("40")
       /\ Rows[j].SubTotalWeight = Num(0) /\ Rows[j].SubUnits = Num(4000)
  /\ \E j \in 1..Len(Rows) :
       IsSubtotal(Rows[j]) /\ Rows[j].SubUnits # Num(UnitsOver(MembersOf(j)))

(* C2 as claimed: Subtotal > Units equals the sum of the members' Units *)
C2_SubtotalUnitsExact ==
  Returned =>
    \A j \in 1..Len(Rows) :
      IsSubtotal(Rows[j]) =>
        Rows[j].SubUnits = Num(UnitsOver(MembersOf(j)))

(* C3: the grand-total row's four subtotal columns each equal the sum of    *)
(* that column over the group subtotal rows alone; header and member rows   *)
(* add nothing                                                               *)
SubtotalIdx == {k \in 1..Len(Rows) : IsSubtotal(Rows[k])}
C3_GrandTotal ==
  (pc = "totals") =>
    LET t == Rows[Len(Rows)]
    IN  /\ IsTotal(t)
        /\ \A k \in 1..(Len(Rows) - 1) : ~IsTotal(Rows[k])
        /\ IsNumeric(t.SubFalta) /\ IsNumeric(t.SubUnits)
        /\ IsNumeric(t.SubTotalWeight) /\ IsNumeric(t.SubVolume)
        /\ DecimalOf(t.SubFalta, 100) = SumOver(SubtotalIdx, "SubFalta")
        /\ DecimalOf(t.SubUnits, 100) = SumOver(SubtotalIdx, "SubUnits")
        /\ DecimalOf(t.SubTotalWeight, 1000) = SumOver(SubtotalIdx, "SubTotalWeight")
        /\ DecimalOf(t.SubVolume, 100000) = SumOver(SubtotalIdx, "SubVolume")

\* a grand total over two groups with a shortage each, where the members'
\* Falta do not add up to the subtotals' Falta
C3_Witness ==
  /\ pc = "totals"
  /\ Cardinality(SubtotalIdx) >= 2
  /\ \A k \in SubtotalIdx : \E m \in MembersOf(k) : Rows[m].Falta.n > 0
  /\ DecimalOf(Rows[Len(Rows)].SubFalta, 100) > 0
  /\ SumOver({k \in 1..Len(Rows) : IsMember(Rows[k])}, "Falta")
       # DecimalOf(Rows[Len(Rows)].SubFalta, 100)

\* the totals the summary is computed from, in grams and in 1e-5 m3, a null
\* or zero total being 0
TotalGrams == IF IsFloat(total_weight) THEN DecimalOf(total_weight, 1000) ELSE 0
TotalVolumeUnits ==
  IF IsFloat(total_volume) THEN DecimalOf(total_volume, 100000) ELSE 0

(* C4 as amended: Pallets Needed = max(1, ceil(max(pw, pv))) where pw and pv *)
(* are totalWeight/1300 and totalVolume/1.728 each rounded to 3 decimals (to *)
(* a nearest thousandth; a zero or null total counts as 0); it is an integer *)
(* >= 1, it is 2 for 2600 kg and 1.0 m3, and it is the unrounded ceiling or  *)
(* one less                                                                  *)
C4_PalletsFromRoundedRatios ==
  (pc = "done" /\ Len(Rows) > 0) =>
    LET tw == TotalGrams
        tv == TotalVolumeUnits
        pw == summary.PalletsByWeight
        pv == summary.PalletsByVolume
        unrounded == Max2(1, Max2(CeilDiv(tw, 1300000), CeilDiv(tv * 10, 1728000)))
    IN  /\ pw \in {tw \div 1300, CeilDiv(tw, 1300)}
        /\ 2 * (pw * 1300 - tw) <= 1300 /\ 2 * (tw - pw * 1300) <= 1300
        /\ pv \in {(tv * 10) \div 1728, CeilDiv(tv * 10, 1728)}
        /\ 2 * (pv * 1728 - tv * 10) <= 1728 /\ 2 * (tv * 10 - pv * 1728) <= 1728
        /\ summary.PalletsNeeded = Max2(1, CeilDiv(Max2(pw, pv), 1000))
        /\ summary.PalletsNeeded >= 1
        /\ summary.PalletsNeeded \in {unrounded, unrounded - 1}
        /\ (tw = 2600000 /\ tv = 100000) => summary.PalletsNeeded = 2

\* 1300.125 kg with no volume at all: one pallet
C4_Witness ==
  /\ pc = "done"
  /\ TotalGrams = 1300125
  /\ total_volume = NaN
  /\ summary.PalletsByWeight = 1000
  /\ summary.PalletsNeeded = 1

(* C4 as claimed: Pallets Needed = max(1, ceil(max(totalWeight/1300,        *)
(* totalVolume/1.728)))                                                      *)
C4_PalletsFromExactRatios ==
  (pc = "done" /\ Len(Rows) > 0) =>
    summary.PalletsNeeded =
      Max2(1, Max2(CeilDiv(TotalGrams, 1300000),
                   CeilDiv(TotalVolumeUnits * 10, 1728000)))

Called == pc \notin {"start", "lookup"}

(* C5 as amended: when the 'products' field is not a list,                  *)
(* get_products_info_for_row raises TypeError, and returns no report, iff   *)
(* the value is truthy; a falsy value (None, "", 0, {}) is taken for an     *)
(* empty list and the empty report is returned                              *)
C5_TruthyNonListRaises ==
  (Called /\ docField.t # "list") =>
    IF Truthy(docField)
    THEN pc = "error" /\ exc = Raise("TypeError", 83) /\ df_res = NoFrame
    ELSE exc = NoExc /\ df_res = EmptyFrame /\ pc \in {"report", "done"}

\* a non-empty string was refused
C5_Witness ==
  /\ docField = Str("abc")
  /\ pc = "error"
  /\ exc = Raise("TypeError", 83)

(* C5 as claimed: every present non-list value of the field makes the call  *)
(* fail with a TypeError                                                     *)
C5_EveryNonListRaises ==
  (Called /\ docField.t \notin {"list", "none", "nan"}) =>
    (pc = "error" /\ exc.type = "TypeError")

(* C6: a document whose field is a list of order lines never makes          *)
(* get_products_info_for_row raise, whatever the optional fields hold       *)
C6_ListNeverRaises ==
  (Called /\ docField.t = "list") => exc.type # "TypeError"

(* ------------------------- C7 ------------------------------------------ *)
\* the group key and the data of each order line, in the order of the lines
RECURSIVE ResolvedAfter(_, _)
ResolvedAfter(items, n) ==
  IF n = 0 THEN <<>>
  ELSE Append(ResolvedAfter(items, n - 1), ResolveLine(items[n], product_lookup))
Resolved == ResolvedAfter(ItemList, Len(ItemList))
FirstSeen(lines, a) ==
  CHOOSE i \in 1..Len(lines) :
    lines[i].subcat = a /\ \A j \in 1..(i - 1) : lines[j].subcat # a
HeaderIdx == {k \in 1..Len(Rows) : IsHeader(Rows[k])}
MemberIdx == {k \in 1..Len(Rows) : IsMember(Rows[k])}
RowKey(r) == SkuRank(IF Truthy(r.SKU) THEN r.SKU.s ELSE "")
DataOf(r) ==
  [Product |-> r.Product, SKU |-> r.SKU, Units |-> r.Units,
   GrossWeight |-> r.GrossWeight, TotalWeight |-> r.TotalWeight,
   Volume |-> r.Volume, StockReal |-> r.StockReal,
   Insuficiente |-> r.Insuficiente, Falta |-> r.Falta, Extra |-> r.Extra]

(* C7: the report is one block per group, in the order in which the groups' *)
(* labels are first seen among the order lines; a block is one header row   *)
(* with the label, the group's lines by SKU ascending (a null or empty SKU  *)
(* as ""), and one subtotal row; blocks do not interleave                   *)
C7_BlocksInFirstSeenOrder ==
  Returned =>
    LET lines == Resolved
    IN  /\ Len(Rows) > 0 => IsHeader(Rows[1])
        /\ \A i \in HeaderIdx :
             \E j \in (i + 1)..Len(Rows) :
               /\ IsSubtotal(Rows[j])
               /\ Rows[j].Product.subcat = Rows[i].Product.subcat
               /\ \A k \in (i + 1)..(j - 1) : IsMember(Rows[k])
        /\ \A j \in SubtotalIdx : j = Len(Rows) \/ IsHeader(Rows[j + 1])
        /\ {Rows[i].Product.subcat : i \in HeaderIdx}
             = {lines[i].subcat : i \in 1..Len(lines)}
        /\ \A i, j \in HeaderIdx :
             i < j => FirstSeen(lines, Rows[i].Product.subcat)
                        < FirstSeen(lines, Rows[j].Product.subcat)
        /\ \A j \in SubtotalIdx :
             /\ \A k \in MembersOf(j) :
                  (k + 1) \in MembersOf(j) => RowKey(Rows[k]) <= RowKey(Rows[k + 1])
             /\ Cardinality(MembersOf(j))
                  = Cardinality({i \in 1..Len(lines) :
                                  lines[i].subcat = Rows[j].Product.subcat})
             /\ \A k \in MembersOf(j) :
                  \E i \in 1..Len(lines) :
                    /\ lines[i].subcat = Rows[j].Product.subcat
                    /\ lines[i].data = DataOf(Rows[k])

\* group L2 is seen before group L1 and after the default group, and a group's
\* lines arrive with the larger SKU first, one of them with no SKU
C7_Witness ==
  /\ Returned
  /\ \E i, j \in HeaderIdx :
       i < j /\ Rows[i].Product.subcat = Str("L2") /\ Rows[j].Product.subcat = Str("L1")
  /\ LET lines == Resolved
     IN  \E i, j \in 1..Len(lines) :
           /\ i < j /\ lines[i].subcat = lines[j].subcat
           /\ SortKey(lines[i].data) > SortKey(lines[j].data)

(* ------------------------- C8 ------------------------------------------ *)
\* the key a record is stored under: its id when truthy, else its productId
KeyOf(p) == IF p.id \notin {None, Str("")} THEN p.id ELSE p.productId
ProductSet == {products[i] : i \in 1..Len(products)}

(* C8 as amended: build_product_lookup keys each record by its id when that *)
(* is truthy, else by its productId, whatever that is; no record is         *)
(* dropped: one with no identifier is stored under the null key; the key    *)
(* set is exactly the set of these keys, the last record of a key wins, an  *)
(* empty list gives an empty index, and a line with no identifier never     *)
(* resolves to the null-key entry                                           *)
C8_IndexKeys ==
  (pc # "start") =>
    /\ DOMAIN product_lookup = {KeyOf(p) : p \in ProductSet}
    /\ \A i \in 1..Len(products) :
         (\A j \in (i + 1)..Len(products) : KeyOf(products[j]) # KeyOf(products[i]))
           => product_lookup[KeyOf(products[i])].SKU = products[i].sku
    /\ products = <<>> => DOMAIN product_lookup = {}
    /\ (Returned /\ ItemPid(ItemList[1]) = None) =>
         \A k \in MemberIdx : Rows[k].StockReal = Str("") /\ Rows[k].SKU = Str("C")

\* a record with no identifier sits in the index under the null key, and the
\* line with no identifier was resolved from its own fields
C8_Witness ==
  /\ Returned
  /\ \E p \in ProductSet : p.id = None /\ p.productId = None
  /\ None \in DOMAIN product_lookup
  /\ ItemPid(ItemList[1]) = None
  /\ \E k \in MemberIdx : Rows[k].StockReal = Str("")

(* C8 as claimed: the first non-null of id and productId is the key, and a  *)
(* record with neither has no entry                                         *)
C8_NoEntryWithoutIdentifier ==
  (pc # "start") =>
    DOMAIN product_lookup
      = {(IF p.id # None THEN p.id ELSE p.productId) : p \in ProductSet} \ {None}

(* C9: the summary's Total Units, Total Weight and Total Volume are the     *)
(* grand-total row's Subtotal > Units, > Total Weight and > Volume, at the  *)
(* precision the summary prints, an all-null column counting as 0           *)
C9_SummaryIsGrandTotal ==
  (pc = "done" /\ Len(Rows) > 0) =>
    LET t == Rows[Len(Rows)]
    IN  /\ summary.TotalUnits = Num((DecimalOf(t.SubUnits, 100) \div 100) * 100)
        /\ summary.TotalWeight = Num(RoundTo(DecimalOf(t.SubTotalWeight, 1000), 10))
        /\ summary.TotalVolume = Num(RoundTo(DecimalOf(t.SubVolume, 100000), 100))

(* C10: every order line gives exactly one member row: a report of n lines  *)
(* in g groups has n member rows, g header rows, g subtotal rows and so     *)
(* n + 2g rows; it has no row iff n = 0, and always the 14 columns          *)
C10_LineConservation ==
  Returned =>
    LET lines == Resolved
        n == Len(ItemList)
        g == Cardinality({lines[i].subcat : i \in 1..n})
    IN  /\ Cardinality(MemberIdx) = n
        /\ Cardinality(HeaderIdx) = g
        /\ Cardinality(SubtotalIdx) = g
        /\ Len(Rows) = n + 2 * g
        /\ \A i \in 1..n :
             Cardinality({k \in MemberIdx : DataOf(Rows[k]) = lines[i].data})
               = Cardinality({j \in 1..n : lines[j].data = lines[i].data})
        /\ (Len(Rows) = 0) <=> (n = 0)
        /\ df_res.columns = Columns /\ Len(df_res.columns) = 14

\* three lines, two of them the same line, one found in the catalog, one with
\* no identifier, one with no SKU
C10_Witness ==
  /\ Returned
  /\ Len(ItemList) = 3
  /\ Len(Rows) > 3
  /\ \E i, j \in 1..3 : i < j /\ ItemList[i] = ItemList[j]
  /\ \E i \in 1..3 : CatalogHit(ItemPid(ItemList[i]), product_lookup)
  /\ \E i \in 1..3 : ItemPid(ItemList[i]) = None
  /\ \E i \in 1..3 : ~Truthy(Resolved[i].data.SKU)

====
